---- MODULE Spec2Model ----
(***************************************************************************)
(* Model of the InfluxDB plugin for SmartHome.py (src/__init__.py).        *)
(*                                                                         *)
(* Part 1: the write queue (a deque with maxlen), the enqueue paths        *)
(* (update_item, _enqueue_all_items) and the flush task                    *)
(* (_flush_write_queue / _write_item).  The host runs the callbacks and    *)
(* the two periodic tasks on scheduler threads, so the steps of one task   *)
(* interleave with those of the others between bytecodes; each deque       *)
(* operation (len, truth test, popleft, append, extend) is one atomic      *)
(* step.                                                                   *)
(*                                                                         *)
(* Part 2: the series query (_get_sh_series / _get_item_series), a         *)
(* synchronous call with no shared mutable state, checked under QSpec,     *)
(* and its helpers _parse_timestr and _get_resolution, checked on their    *)
(* own under FSpec.  Texts are sequences of characters, instants are epoch *)
(* seconds.                                                                *)
(*                                                                         *)
(* Part 3: construction (__init__ with its connectivity probe), run and    *)
(* stop, checked under StartSpec.                                          *)
(***************************************************************************)
EXTENDS Integers, Sequences, FiniteSets, TLC

\* ------------------------------------------------------------------ bounds
\* largest write_queue_max_size explored
MaxCap == 3
\* number of enqueues explored (get_ts() ticks)
MaxTs == 3
\* number of enqueues explored under LiveSpec
LiveMaxTs == 2
\* number of enqueues explored under StartSpec
StartMaxTs == 1
\* number of polls with an update directive explored under QSpec
MaxPolls == 2
\* longest time text explored under FSpec
MaxTextLen == 3

\* ------------------------------------------------------- program constants
\* self.clsname = self.__class__.__name__
clsname == "InfluxDB"
\* the literal update_item compares the caller with
PLUGIN_TAG == "plugin"
\* MEASUREMENT_TPL = 'smarthome.{}'
MEASUREMENT_TPL(name) == <<"smarthome", name>>

\* ids of the items parse_item put in the registry self._items
Items == {"a", "b"}
\* origin tags the host passes to the update hook; clsname is the tag the
\* plugin itself passes to item.set in _inject_last_value
Callers == {PLUGIN_TAG, clsname, "Logic"}
\* the values item() returns, as <<type(val), val>>: item a holds a number,
\* item b a string (a value the write path does not accept)
ItemValues(item) == IF item = "a" THEN {<<"int", 1>>} ELSE {<<"str", 1>>}

None == <<>>
\* a value that may be None is kept as <<>> or <<value>>
Some(x) == <<x>>
The(o) == o[1]

VARIABLES
    cap,          \* maxlen of self._write_queue
    write_queue,  \* self._write_queue
    db_up,        \* whether c.write_points currently succeeds
    points,       \* the points the database accepted
    fpc,          \* position of the flush task in _flush_write_queue
    params,       \* local of _flush_write_queue: the entry popped last
    requeue,      \* local of _flush_write_queue
    todo,         \* items the running _enqueue_all_items has yet to visit
    arrivals,     \* history: every entry enqueued, in arrival order
    evicted,      \* history: entries the deque discarded at maxlen
    failed,       \* history: entries whose write_points call raised
    dropped,      \* history: entries _write_item refused for their type
    cycle,        \* history of the running flush cycle
    last,         \* history of the flush cycle that finished last
    q_in,         \* arguments of the series query
    q_db,         \* what c.query answers
    q_out,        \* what _get_sh_series returned or raised
    q_prev,       \* history: the call and reply the client polled on from
    q_polls,      \* history: number of polls with an update directive
    probe,        \* what c.get_list_users() does in __init__
    spc,          \* "new" before __init__ ran, "constructed" after
    alive,        \* self.alive: "unset" until something assigns it
    db_admin,     \* self._db_admin
    scheduled,    \* the tasks __init__ added to smarthome.scheduler
    f_in,         \* a call of _parse_timestr or _get_resolution
    f_out         \* what the call returned or raised

bvars == <<cap, write_queue, db_up, points, fpc, params, requeue, todo,
           arrivals, evicted, failed, dropped, cycle, last>>
qvars == <<q_in, q_db, q_out, q_prev, q_polls>>
svars == <<probe, spc, alive, db_admin, scheduled>>
fvars == <<f_in, f_out>>
vars == <<cap, write_queue, db_up, points, fpc, params, requeue, todo,
          arrivals, evicted, failed, dropped, cycle, last,
          q_in, q_db, q_out, q_prev, q_polls,
          probe, spc, alive, db_admin, scheduled,
          f_in, f_out>>

Range(s) == {s[i] : i \in 1..Len(s)}

\* ------------------------------------------------------------- the deque
\* faulty variant: the deque grows without bound
DequeAppendUnbounded(q, x, maxlen) == Append(q, x)

\* faulty variant: a full deque refuses the new entry
DequeAppendDropNewest(q, x, maxlen) ==
    IF Len(q) < maxlen THEN Append(q, x) ELSE q

\* faulty variant: a full deque discards its rightmost entry
DequeAppendEvictRight(q, x, maxlen) ==
    IF maxlen = 0 THEN q
    ELSE IF Len(q) < maxlen THEN Append(q, x)
    ELSE Append(SubSeq(q, 1, Len(q) - 1), x)

\* deque.append on a deque with maxlen: when full, the leftmost entry is
\* discarded
DequeAppend(q, x, maxlen) ==
    IF maxlen = 0 THEN q
    ELSE IF Len(q) < maxlen THEN Append(q, x)
    ELSE Append(Tail(q), x)

\* faulty variant: the elements of xs go in front of the queue
DequeExtendFront(q, xs, maxlen) ==
    LET all == xs \o q IN
    IF Len(all) <= maxlen THEN all
    ELSE SubSeq(all, Len(all) - maxlen + 1, Len(all))

\* deque.extend: append each element of xs in turn
RECURSIVE DequeExtend(_, _, _)
DequeExtend(q, xs, maxlen) ==
    IF xs = <<>> THEN q
    ELSE DequeExtend(DequeAppend(q, Head(xs), maxlen), Tail(xs), maxlen)

\* the entries a deque operation discarded
Discarded(q, xs, q2) == (Range(q) \cup Range(xs)) \ Range(q2)

\* get_ts(): the model's clock ticks once per enqueue, so the ts of an
\* entry is its arrival number and identifies it
get_ts == Len(arrivals) + 1

\* the write body _write_item builds; ints are cast to floats
Point(p) ==
    [measurement |-> MEASUREMENT_TPL(p.name),
     value |-> IF p.value[1] = "int" THEN <<"float", p.value[2]>> ELSE p.value,
     time |-> p.ts]

\* faulty variant: no type check
TypeAcceptedAny(val) == TRUE

\* the type check of _write_item
TypeAccepted(val) == val[1] \in {"int", "float", "bool"}

\* cycle: the queue at the length check, the entries popped so far, those
\* whose write raised, and the number of arrivals at the length check
NoCycle == [start |-> <<>>, popped |-> <<>>, errs |-> <<>>, arr0 |-> 0]
\* last: the same of the finished cycle, with the number of entries that
\* arrived while it ran and the queue right before and after the extend
NoLast == [start |-> <<>>, popped |-> <<>>, errs |-> <<>>, enq |-> 0,
           before |-> <<>>, end |-> <<>>]

\* -------------------------------------------------------------- enqueue
\* _enqueue_item: append {'name', 'value', 'ts'} to the write queue
_enqueue_item(item, v) ==
    LET e == [name |-> item, value |-> v, ts |-> get_ts]
        q2 == DequeAppend(write_queue, e, cap)
    IN  /\ Len(arrivals) < MaxTs
        /\ write_queue' = q2
        /\ arrivals' = Append(arrivals, e)
        /\ evicted' = evicted \cup Discarded(write_queue, <<e>>, q2)

\* update_item: the hook the host calls when an item changed; v is item()
update_item(item, caller, v) ==
    /\ IF caller # PLUGIN_TAG
       THEN _enqueue_item(item, v)
       ELSE UNCHANGED <<write_queue, arrivals, evicted>>
    /\ UNCHANGED <<cap, db_up, points, fpc, params, requeue, todo, failed,
                   dropped, cycle, last, qvars, svars, fvars>>

\* _enqueue_all_items: the periodic collection starts its loop over _items
CollectStart ==
    /\ "collect" \in scheduled
    /\ todo = {}
    /\ todo' = Items
    /\ UNCHANGED <<cap, write_queue, db_up, points, fpc, params, requeue,
                   arrivals, evicted, failed, dropped, cycle, last, qvars,
                   svars, fvars>>

\* one iteration of the loop of _enqueue_all_items
CollectStep ==
    /\ todo # {}
    /\ \E item \in todo : \E v \in ItemValues(item) :
          /\ _enqueue_item(item, v)
          /\ todo' = todo \ {item}
    /\ UNCHANGED <<cap, db_up, points, fpc, params, requeue, failed,
                   dropped, cycle, last, qvars, svars, fvars>>

\* ---------------------------------------------------------------- flush
\* _flush_write_queue up to the loop: the length check and requeue = []
FlushStart ==
    /\ "flush" \in scheduled
    /\ fpc = "idle"
    /\ IF Len(write_queue) = 0
       THEN UNCHANGED <<fpc, requeue, cycle>>
       ELSE /\ fpc' = "while"
            /\ requeue' = <<>>
            /\ cycle' = [start |-> write_queue, popped |-> <<>>,
                         errs |-> <<>>, arr0 |-> Len(arrivals)]
    /\ UNCHANGED <<cap, write_queue, db_up, points, params, todo, arrivals,
                   evicted, failed, dropped, last, qvars, svars, fvars>>

\* faulty variant: the loop takes as many entries as the queue held at the
\* length check and no more
WhileTestCounted ==
    /\ fpc = "while"
    /\ fpc' = IF write_queue # <<>> /\ Len(cycle.popped) < Len(cycle.start)
              THEN "pop" ELSE "extend"
    /\ UNCHANGED <<cap, write_queue, db_up, points, params, requeue, todo,
                   arrivals, evicted, failed, dropped, cycle, last, qvars,
                   svars, fvars>>

\* while self._write_queue:
WhileTest ==
    /\ fpc = "while"
    /\ fpc' = IF write_queue # <<>> THEN "pop" ELSE "extend"
    /\ UNCHANGED <<cap, write_queue, db_up, points, params, requeue, todo,
                   arrivals, evicted, failed, dropped, cycle, last, qvars,
                   svars, fvars>>

\* params = self._write_queue.popleft(), IndexError breaks the loop
PopLeft ==
    /\ fpc = "pop"
    /\ IF write_queue # <<>>
       THEN /\ params' = Head(write_queue)
            /\ write_queue' = Tail(write_queue)
            /\ cycle' = [cycle EXCEPT !.popped = Append(@, Head(write_queue))]
            /\ fpc' = "write"
       ELSE /\ fpc' = "extend"
            /\ UNCHANGED <<params, write_queue, cycle>>
    /\ UNCHANGED <<cap, db_up, points, requeue, todo, arrivals, evicted,
                   failed, dropped, last, qvars, svars, fvars>>

\* faulty variant: the failed write is logged and forgotten
OnWriteErrorDrop(rq, p) == rq

\* the except clause of the flush loop: requeue.append(params)
OnWriteError(rq, p) == Append(rq, p)

\* faulty variant: a failed write ends the loop
LoopAfterWriteAbort(raised) == IF raised THEN "extend" ELSE "while"

\* the try/except sits inside the while loop: whether or not the write
\* raised, the flush goes on with the next loop test
LoopAfterWrite(raised) == "while"

\* self._write_item(**params) and the except clause around it: a value of
\* an unaccepted type returns before the database call; write_points
\* raises when the database is down
WriteItem ==
    LET raised == TypeAccepted(params.value) /\ ~db_up IN
    /\ fpc = "write"
    /\ IF ~TypeAccepted(params.value)
       THEN /\ dropped' = dropped \cup {params}
            /\ UNCHANGED <<points, failed, requeue, cycle>>
       ELSE IF db_up
       THEN /\ points' = points \cup {Point(params)}
            /\ UNCHANGED <<failed, requeue, dropped, cycle>>
       ELSE /\ failed' = failed \cup {params}
            /\ requeue' = OnWriteError(requeue, params)
            /\ cycle' = [cycle EXCEPT !.errs = Append(@, params)]
            /\ UNCHANGED <<points, dropped>>
    /\ fpc' = LoopAfterWrite(raised)
    /\ UNCHANGED <<cap, write_queue, db_up, params, todo, arrivals, evicted,
                   last, qvars, svars, fvars>>

\* faulty variant: the flush goes round again while a write has failed
AfterExtendRetry(rq) == IF rq # <<>> THEN "while" ELSE "idle"

\* the extend is the last statement: the flush returns whatever it requeued
AfterExtend(rq) == "idle"

\* self._write_queue.extend(requeue), and the return
Extend ==
    LET q2 == DequeExtend(write_queue, requeue, cap) IN
    /\ fpc = "extend"
    /\ write_queue' = q2
    /\ evicted' = evicted \cup Discarded(write_queue, requeue, q2)
    /\ last' = [start |-> cycle.start, popped |-> cycle.popped,
                errs |-> cycle.errs, enq |-> Len(arrivals) - cycle.arr0,
                before |-> write_queue, end |-> q2]
    /\ cycle' = NoCycle
    /\ requeue' = <<>>
    /\ params' = None
    /\ fpc' = AfterExtend(requeue)
    /\ UNCHANGED <<cap, db_up, points, todo, arrivals, failed, dropped,
                   qvars, svars, fvars>>

\* ------------------------------------------------------------- database
DbDown ==
    /\ db_up
    /\ db_up' = FALSE
    /\ UNCHANGED <<cap, write_queue, points, fpc, params, requeue, todo,
                   arrivals, evicted, failed, dropped, cycle, last, qvars,
                   svars, fvars>>

DbUp ==
    /\ ~db_up
    /\ db_up' = TRUE
    /\ UNCHANGED <<cap, write_queue, points, fpc, params, requeue, todo,
                   arrivals, evicted, failed, dropped, cycle, last, qvars,
                   svars, fvars>>

\* --------------------------------------------------------- series query
MINUTE == 60
HOUR == 60 * MINUTE
DAY == 24 * HOUR
WEEK == 7 * DAY
RESOLUTIONS == <<<<DAY, 5 * MINUTE>>, <<WEEK, HOUR>>, <<4 * WEEK, 12 * HOUR>>>>

\* tuple order of Python: by the first component, then by the second
TupleLess(a, b) == a[1] < b[1] \/ (a[1] = b[1] /\ a[2] < b[2])

\* sorted(seq, reverse=True) of a sequence of pairs
RECURSIVE SortedReverse(_)
SortedReverse(seq) ==
    IF seq = <<>> THEN <<>>
    ELSE LET i == CHOOSE k \in 1..Len(seq) :
                     \A m \in 1..Len(seq) :
                         m # k => (TupleLess(seq[m], seq[k])
                                      \/ (seq[m] = seq[k] /\ k < m))
             rest == [m \in 1..(Len(seq) - 1) |->
                         IF m < i THEN seq[m] ELSE seq[m + 1]]
         IN  <<seq[i]>> \o SortedReverse(rest)

\* faulty variant: a span equal to a threshold misses it
RECURSIVE ResolutionLoopStrict(_, _, _)
ResolutionLoopStrict(table, secs, ret) ==
    IF table = <<>> THEN ret
    ELSE LET th == Head(table)[1]
             res == Head(table)[2]
         IN  ResolutionLoopStrict(Tail(table), secs,
                 IF ret = None \/ The(ret) = 0 \/ secs < th
                 THEN Some(res) ELSE ret)

\* the loop of _get_resolution: ret is replaced while it is unset (or
\* falsy) or secs <= th
RECURSIVE ResolutionLoop(_, _, _)
ResolutionLoop(table, secs, ret) ==
    IF table = <<>> THEN ret
    ELSE LET th == Head(table)[1]
             res == Head(table)[2]
         IN  ResolutionLoop(Tail(table), secs,
                 IF ret = None \/ The(ret) = 0 \/ secs <= th
                 THEN Some(res) ELSE ret)

_get_resolution(secs) ==
    The(ResolutionLoop(SortedReverse(RESOLUTIONS), secs, None))

Raise(exc) == [kind |-> "raise", exc |-> exc]
\* a call that returned; value is None or Some(the returned value)
Return(value) == [kind |-> "return", value |-> value]

\* ----------------------------------------------------------------- texts
\* a str is the sequence of its characters
Digits == <<"0", "1", "2", "3", "4", "5", "6", "7", "8", "9">>
DigitValue(c) == (CHOOSE i \in 1..10 : Digits[i] = c) - 1

\* str.isdigit(): false for the empty str
isdigit(s) == s # <<>> /\ \A i \in 1..Len(s) : s[i] \in Range(Digits)

\* int(s) of an all-digit str
RECURSIVE int(_)
int(s) ==
    IF s = <<>> THEN 0
    ELSE 10 * int(SubSeq(s, 1, Len(s) - 1)) + DigitValue(s[Len(s)])

\* str(n) of an int n >= 0
RECURSIVE IntStr(_)
IntStr(n) ==
    IF n < 10 THEN <<Digits[n + 1]>>
    ELSE Append(IntStr(n \div 10), Digits[(n % 10) + 1])

\* str(a): an argument is <<"str", text>> or <<"int", n>>
str(a) == IF a[1] = "int" THEN IntStr(a[2]) ELSE a[2]

RECURSIVE lstrip(_, _)
lstrip(s, chars) ==
    IF s # <<>> /\ Head(s) \in chars THEN lstrip(Tail(s), chars) ELSE s

RECURSIVE rstrip(_, _)
rstrip(s, chars) ==
    IF s # <<>> /\ s[Len(s)] \in chars
    THEN rstrip(SubSeq(s, 1, Len(s) - 1), chars)
    ELSE s

\* s.strip(chars)
strip(s, chars) == rstrip(lstrip(s, chars), chars)
\* the characters s.strip() removes, of those the model uses
Whitespace == {" "}

\* s.lower(), on the upper-case letters the model uses
LowerChar(c) ==
    CASE c = "H" -> "h"
      [] c = "M" -> "m"
      [] c = "D" -> "d"
      [] OTHER -> c
lower(s) == [i \in 1..Len(s) |-> LowerChar(s[i])]

\* ------------------------------------------------------------ time parser
TIME_SUFFIXES == [m |-> "minutes", h |-> "hours", d |-> "days", y |-> "years"]

\* dt.utcnow(), in epoch seconds: the instant the calls of the model are made
utcnow == 2000000

\* the keyword arguments timedelta accepts, of those the parser can pass,
\* with their length in seconds; td(years=...) raises TypeError
TimedeltaSeconds == [minutes |-> MINUTE, hours |-> HOUR, days |-> DAY]

\* faulty variant: the '+' prefix is not looked at
StartsWithPlusNever(t) == FALSE

\* timestr.startswith('+')
StartsWithPlus(t) == t # <<>> /\ t[1] = "+"

\* _parse_timestr, in the order of its statements; instants are epoch
\* seconds; reldt is None or Some(instant); timestr[-1] of the empty str
\* raises IndexError
_parse_timestr(timestr, reldt) ==
    LET t == lower(strip(str(timestr), Whitespace))
        ref == IF reldt = None THEN utcnow ELSE The(reldt)
        suffix == t[Len(t)]
        unit == IF suffix \in DOMAIN TIME_SUFFIXES
                THEN TIME_SUFFIXES[suffix] ELSE "hours"
        remchars == {"+", "-"} \cup DOMAIN TIME_SUFFIXES
        digits == strip(t, remchars)
        time == TimedeltaSeconds[unit] * int(digits)
    IN  IF t = <<"n", "o", "w">> THEN Return(Some(utcnow))
        ELSE IF isdigit(t) THEN Return(Some(int(t)))
        ELSE IF t = <<>> THEN Raise("IndexError")
        ELSE IF ~isdigit(digits) THEN Return(None)
        ELSE IF unit \notin DOMAIN TimedeltaSeconds THEN Raise("TypeError")
        ELSE Return(Some(IF StartsWithPlus(t) THEN ref + time
                         ELSE ref - time))

\* ----------------------------------------------------------- series query
\* the time arguments the queries of the model use: relative texts, Unix
\* timestamps (the instant of the call, and one hour and twenty days before
\* it), 'now', and texts whose magnitude is not all digits
Text1h == <<"str", <<"-", "1", "h">>>>
Text20d == <<"str", <<"-", "2", "0", "d">>>>
TextNow == <<"str", <<"n", "o", "w">>>>
TextBad == <<"str", <<"-", "x", "h">>>>
TextEnd == <<"str", <<"2", "0", "0", "0", "0", "0", "0">>>>
TextHourAgo == <<"str", <<"1", "9", "9", "6", "4", "0", "0">>>>
StartArgs == {Text1h, Text20d, TextHourAgo, TextBad}
EndArgs == {TextNow, TextEnd, TextBad}

\* rows of the aggregation query: bucket time in epoch seconds and the
\* three selected fields, each Some(number), or None in an empty bucket
\* (fill(null))
Row(t, mn, av, mx) ==
    [time |-> t, value_min |-> mn, value_avg |-> av, value_max |-> mx]
\* what c.query does: it raises, or returns the rows of the measurement
DbAnswers ==
    {[kind |-> "raise"],
     [kind |-> "rows", rows |-> <<>>],
     [kind |-> "rows", rows |-> <<Row(1997200, Some(1), Some(2), Some(3))>>],
     [kind |-> "rows", rows |-> <<Row(1997500, None, None, None),
                                  Row(1997800, Some(4), Some(5), Some(6)),
                                  Row(1997200, Some(0), Some(0), Some(0))>>]}

Funcs == {"avg", "min", "max", "on", "sum"}
\* the arguments of item.series(func, start, end, step=, sid=)
QueryInputs ==
    [item : {"a"}, func : Funcs, start : StartArgs, end : EndArgs,
     step : {None, Some(600)}, sid : {None, Some(<<"s1">>)}]

\* _get_item_series: None when the query raised or returned nothing
_get_item_series(answer) ==
    IF answer.kind = "raise" THEN None
    ELSE IF Len(answer.rows) > 0 THEN Some(answer.rows)
    ELSE None

\* faulty variant: an unknown function falls back to the average
SelectFieldDefaultAvg(func) ==
    IF func \in {"avg", "min", "max"} THEN Some("value_" \o func)
    ELSE IF func = "on" THEN Some("value_max")
    ELSE Some("value_avg")

\* the field the function selects; None stands for NotImplementedError
SelectField(func) ==
    IF func \in {"avg", "min", "max"} THEN Some("value_" \o func)
    ELSE IF func = "on" THEN Some("value_max")
    ELSE None

FieldOf(d, field) ==
    CASE field = "value_min" -> d.value_min
      [] field = "value_avg" -> d.value_avg
      [] field = "value_max" -> d.value_max

\* faulty variant: the rows stay in the order the database returned them
SortedByTimeNot(seq) == seq

\* sorted(tuples, key=lambda x: x[0]): stable, ascending by time
RECURSIVE SortedByTime(_)
SortedByTime(seq) ==
    IF seq = <<>> THEN <<>>
    ELSE LET i == CHOOSE k \in 1..Len(seq) :
                     \A m \in 1..Len(seq) :
                         m # k => (seq[k][1] < seq[m][1]
                                      \/ (seq[k][1] = seq[m][1] /\ k < m))
             rest == [m \in 1..(Len(seq) - 1) |->
                         IF m < i THEN seq[m] ELSE seq[m + 1]]
         IN  <<seq[i]>> \o SortedByTime(rest)

\* faulty variant: the next window starts where this one started
NextStartSame(ts_start, ts_end) == ts_start

\* 'start' of the update directive: "Start is the end of this query"
NextStart(ts_start, ts_end) == ts_end

\* _get_sh_series, in the order of its statements: an exception of the
\* parser propagates, subtracting with a None instant and len(None) raise
\* TypeError
_get_sh_series(in, answer) ==
    LET p_start == _parse_timestr(in.start, None)
        p_end == _parse_timestr(in.end, None)
        dt_start == p_start.value
        dt_end == p_end.value
        ts_start == The(dt_start)
        ts_end == The(dt_end)
        sid == IF in.sid = None
               THEN <<in.item, in.func, in.start, in.end>>
               ELSE The(in.sid)
        step == IF in.step = None \/ The(in.step) = 0
                THEN _get_resolution(ts_end - ts_start)
                ELSE The(in.step)
        data == _get_item_series(answer)
        select_field == SelectField(in.func)
        rows == The(data)
        tuples == [k \in 1..Len(rows) |->
                      <<rows[k].time * 1000,
                        FieldOf(rows[k], The(select_field))>>]
    IN  IF p_start.kind = "raise" THEN p_start
        ELSE IF p_end.kind = "raise" THEN p_end
        ELSE IF dt_start = None \/ dt_end = None
        THEN Raise("TypeError")
        ELSE IF select_field = None
        THEN Raise("NotImplementedError")
        ELSE IF data = None
        THEN Raise("TypeError")
        ELSE [kind |-> "reply",
              cmd |-> "series",
              sid |-> sid,
              params |-> [update |-> TRUE, item |-> in.item,
                          func |-> in.func,
                          start |-> NextStart(ts_start, ts_end),
                          end |-> ts_end + step, step |-> step, sid |-> sid],
              series |-> IF Len(rows) > 0 THEN SortedByTime(tuples)
                         ELSE <<>>]

QNone == [kind |-> "none"]

\* a client calls item.series(...)
Query ==
    /\ q_out = QNone
    /\ q_in # QNone
    /\ q_out' = _get_sh_series(q_in, q_db)
    /\ UNCHANGED <<bvars, q_in, q_db, q_prev, q_polls, svars, fvars>>

\* the client polls again with the update directive of the reply it got:
\* item.series(**reply['params'])
Repoll ==
    /\ q_out # QNone
    /\ q_out.kind = "reply"
    /\ q_polls < MaxPolls
    /\ q_polls' = q_polls + 1
    /\ q_prev' = [in |-> q_in, out |-> q_out]
    /\ q_in' = [item |-> q_out.params.item,
                func |-> q_out.params.func,
                start |-> <<"int", q_out.params.start>>,
                end |-> <<"int", q_out.params.end>>,
                step |-> Some(q_out.params.step),
                sid |-> Some(q_out.params.sid)]
    /\ q_db' \in DbAnswers
    /\ q_out' = QNone
    /\ UNCHANGED <<bvars, svars, fvars>>

\* ------------------------------------------------------ calls on their own
\* the characters of the time texts explored
Alphabet == {"+", "-", "1", "2", "m", "h", "d", "y", "x", "H", " "}
TimeTexts ==
    UNION {[1..n -> Alphabet] : n \in 0..MaxTextLen}
        \cup {TextNow[2], TextEnd[2], Text20d[2]}
\* the reference instant reldt: absent, or a given instant
Refs == {None, Some(1000000)}
\* the spans explored: the thresholds of RESOLUTIONS and their neighbours
Spans ==
    {-MINUTE, 0, HOUR, DAY - 1, DAY, DAY + 1, 6 * DAY, WEEK - 1, WEEK,
     WEEK + 1, 20 * DAY, 4 * WEEK - 1, 4 * WEEK, 4 * WEEK + 1, 8 * WEEK}
CallInputs ==
    [fn : {"_parse_timestr"}, timestr : {<<"str", t>> : t \in TimeTexts},
     reldt : Refs]
        \cup [fn : {"_parse_timestr"}, timestr : {<<"int", 1500000>>},
              reldt : Refs]
        \cup [fn : {"_get_resolution"}, secs : Spans, secs2 : Spans]

\* a call of _parse_timestr(timestr, reldt)
Parse ==
    /\ f_out = QNone
    /\ f_in # QNone
    /\ f_in.fn = "_parse_timestr"
    /\ f_out' = _parse_timestr(f_in.timestr, f_in.reldt)
    /\ UNCHANGED <<bvars, qvars, svars, f_in>>

\* two calls of _get_resolution, with secs and with secs2
Resolve ==
    /\ f_out = QNone
    /\ f_in # QNone
    /\ f_in.fn = "_get_resolution"
    /\ f_out' = [kind |-> "return",
                 value |-> _get_resolution(f_in.secs),
                 value2 |-> _get_resolution(f_in.secs2)]
    /\ UNCHANGED <<bvars, qvars, svars, f_in>>

\* -------------------------------------------------------------- startup
\* the two tasks __init__ adds to the scheduler: "value collect" runs
\* _enqueue_all_items, "flush write queue" runs _flush_write_queue
Tasks == {"collect", "flush"}
\* what the probe c.get_list_users() does: it returns, or raises
\* InfluxDBClientError with code 403 or with another code, or raises
\* another exception (e.g. a refused connection)
Probes == {"ok", "403", "client_error", "exception"}

\* __init__ from the probe on: a probe that returns makes the plugin an
\* admin, a 403 leaves _db_admin False, both go on to scheduler.add; any
\* other exception sets alive = False and returns before scheduler.add
Construct ==
    /\ spc = "new"
    /\ spc' = "constructed"
    /\ IF probe = "ok"
       THEN /\ db_admin' = TRUE
            /\ scheduled' = Tasks
            /\ UNCHANGED alive
       ELSE IF probe = "403"
       THEN /\ db_admin' = FALSE
            /\ scheduled' = Tasks
            /\ UNCHANGED alive
       ELSE /\ db_admin' = FALSE
            /\ alive' = "False"
            /\ UNCHANGED scheduled
    /\ UNCHANGED <<bvars, qvars, fvars, probe>>

\* run(): the host starts the plugin thread of every plugin object it
\* could construct
run ==
    /\ spc = "constructed"
    /\ alive' = "True"
    /\ UNCHANGED <<bvars, qvars, fvars, probe, spc, db_admin, scheduled>>

\* stop()
stop ==
    /\ spc = "constructed"
    /\ alive' = "False"
    /\ UNCHANGED <<bvars, qvars, fvars, probe, spc, db_admin, scheduled>>

\* a plugin whose probe returned, started by the host
Started ==
    /\ probe = "ok"
    /\ spc = "constructed"
    /\ alive = "True"
    /\ db_admin = TRUE
    /\ scheduled = Tasks

\* the write path before any activity
BufferInit ==
    /\ write_queue = <<>>
    /\ points = {}
    /\ fpc = "idle"
    /\ params = None
    /\ requeue = <<>>
    /\ todo = {}
    /\ arrivals = <<>>
    /\ evicted = {}
    /\ failed = {}
    /\ dropped = {}
    /\ cycle = NoCycle
    /\ last = NoLast

\* the state after __init__, the host's parse_item calls and run()
Init ==
    /\ cap \in 1..MaxCap
    /\ db_up \in BOOLEAN
    /\ BufferInit
    /\ q_in = QNone
    /\ q_db = QNone
    /\ q_out = QNone
    /\ q_prev = QNone
    /\ q_polls = 0
    /\ f_in = QNone
    /\ f_out = QNone
    /\ Started

\* the plugin object about to be constructed
StartInit ==
    /\ cap \in 1..MaxCap
    /\ db_up \in BOOLEAN
    /\ BufferInit
    /\ q_in = QNone
    /\ q_db = QNone
    /\ q_out = QNone
    /\ q_prev = QNone
    /\ q_polls = 0
    /\ f_in = QNone
    /\ f_out = QNone
    /\ probe \in Probes
    /\ spc = "new"
    /\ alive = "unset"
    /\ db_admin = FALSE
    /\ scheduled = {}

\* the same, with a series call about to be made
QInit ==
    /\ cap = 1
    /\ db_up = TRUE
    /\ BufferInit
    /\ q_in \in QueryInputs
    /\ q_db \in DbAnswers
    /\ q_out = QNone
    /\ q_prev = QNone
    /\ q_polls = 0
    /\ f_in = QNone
    /\ f_out = QNone
    /\ Started

Next ==
    \/ \E item \in Items, caller \in Callers : \E v \in ItemValues(item) :
          update_item(item, caller, v)
    \/ CollectStart
    \/ CollectStep
    \/ FlushStart
    \/ WhileTest
    \/ PopLeft
    \/ WriteItem
    \/ Extend
    \/ DbDown
    \/ DbUp

Spec == Init /\ [][Next]_vars

\* the steps of the flush task
Flush == FlushStart \/ WhileTest \/ PopLeft \/ WriteItem \/ Extend

LiveNext == Next /\ Len(arrivals') <= LiveMaxTs

\* the scheduler keeps invoking the flush task (cycle=flush_cycle) and a
\* running flush keeps taking steps
LiveSpec == Init /\ [][LiveNext]_vars /\ WF_vars(Flush)

\* construction, then the host's calls and the scheduled tasks
StartNext ==
    \/ Construct
    \/ run
    \/ stop
    \/ (spc = "constructed" /\ Next /\ Len(arrivals') <= StartMaxTs)

StartSpec == StartInit /\ [][StartNext]_vars

QNext == Query \/ Repoll

\* the same state, with a call of the parser or of the resolution selector
\* about to be made
FInit ==
    /\ cap = 1
    /\ db_up = TRUE
    /\ BufferInit
    /\ q_in = QNone
    /\ q_db = QNone
    /\ q_out = QNone
    /\ q_prev = QNone
    /\ q_polls = 0
    /\ f_in \in CallInputs
    /\ f_out = QNone
    /\ Started

FNext == Parse \/ Resolve

\* both are pure functions of their arguments and the clock
FSpec == FInit /\ [][FNext]_vars

\* series calls share no mutable state with the write path
QSpec == QInit /\ [][QNext]_vars

\* ============================================================== claims
\* what the claims call a numeric or boolean value
NumericOrBoolean(val) == val[1] \in {"int", "float", "bool"}
Delivered(e) == Point(e) \in points
HeldByFlush(e) == (fpc = "write" /\ params = e) \/ e \in Range(requeue)
\* the flush task has not taken anything out of the queue so far
NothingPopped ==
    /\ fpc \in {"idle", "while", "pop"}
    /\ cycle.popped = <<>>
    /\ points = {} /\ failed = {} /\ dropped = {}
LastOf(s, n) == SubSeq(s, Len(s) - n + 1, Len(s))

\* C1: after N > C enqueues with no flush in between, the write queue holds
\* exactly the last C enqueued entries, in arrival order.
C1_LastCapRetained ==
    (NothingPopped /\ Len(arrivals) > cap)
        => write_queue = LastOf(arrivals, cap)

C1_Witness ==
    /\ NothingPopped
    /\ cap > 1
    /\ Len(arrivals) > cap
    /\ Len(write_queue) = cap

\* C2: under any interleaving of enqueues with the steps of a flush, no
\* write is both delivered and still in the queue, and every write with an
\* accepted value is in the queue, held by the running flush, delivered, or
\* evicted by capacity.
C2_NoLossNoDuplicate ==
    /\ \A e \in Range(write_queue) : ~Delivered(e)
    /\ \A e \in Range(arrivals) :
          NumericOrBoolean(e.value) =>
              \/ e \in Range(write_queue)
              \/ HeldByFlush(e)
              \/ Delivered(e)
              \/ e \in evicted

\* an entry failed, was enqueued again while other entries arrived during
\* the flush, and was delivered by a later cycle
C2_Witness ==
    \E e \in failed :
        /\ Delivered(e)
        /\ evicted # {}
        /\ fpc = "idle"

\* C4: a write whose value is neither numeric nor boolean never reaches the
\* database write call, and once the flush processed it it is neither in
\* the queue nor set aside for requeueing.
C4_InvalidDropped ==
    /\ \A e \in Range(arrivals) :
          ~NumericOrBoolean(e.value) => (~Delivered(e) /\ e \notin failed)
    /\ \A e \in dropped :
          /\ ~NumericOrBoolean(e.value)
          /\ e \notin Range(write_queue)
          /\ e \notin Range(requeue)

\* a cycle that ran against a failing database is over: the write it could
\* not deliver is back in the queue, the one of an unaccepted type is not
C4_Witness ==
    /\ fpc = "idle"
    /\ \E e \in dropped, f \in failed :
          /\ f \in Range(write_queue)
          /\ e \notin Range(write_queue)
          /\ ~Delivered(f)

\* a flush cycle has finished and nothing was enqueued while it ran
QuietCycle == last.start # <<>> /\ last.enq = 0
Count(seq, x) == Cardinality({i \in 1..Len(seq) : seq[i] = x})
Pos(seq, x) == CHOOSE i \in 1..Len(seq) : seq[i] = x

\* C3: a cycle over a queue of two writes, one whose persistence call fails
\* and one whose call succeeds, with no concurrent enqueue, leaves exactly
\* the failed write in the queue; a cycle in which no call fails, with no
\* concurrent enqueue, leaves the queue empty.
C3_FailedStaysSucceededGone ==
    /\ \A f, g \in Range(last.start) :
          ( /\ QuietCycle
            /\ Len(last.start) = 2 /\ f # g
            /\ last.errs = <<f>>
            /\ NumericOrBoolean(g.value) )
          => (last.end = <<f>> /\ Delivered(g))
    /\ (QuietCycle /\ last.errs = <<>>) => last.end = <<>>

\* the first of the two cycles is over
C3_Witness ==
    /\ fpc = "idle"
    /\ QuietCycle
    /\ Len(last.start) = 2
    /\ Len(last.errs) = 1
    /\ \E g \in Range(last.start) : Delivered(g)
    /\ write_queue = last.errs

\* the second cycle, with the database healthy, is over
C3_SecondCycleReached ==
    /\ fpc = "idle"
    /\ QuietCycle
    /\ \E f \in failed : last.start = <<f>> /\ Delivered(f)
    /\ Len(arrivals) = 2
    /\ \A e \in Range(arrivals) : Delivered(e)
    /\ write_queue = <<>>

\* C7: the writes that failed in a cycle are put back at its end in the
\* order in which they were popped, behind every entry that was enqueued
\* during the flush and is still in the queue; each of them is in the queue
\* after the extend unless the capacity evicted it.
C7_RequeueOrder ==
    LET end == last.end
        errs == Range(last.errs)
    IN  /\ \A i, j \in 1..Len(end) :
              (i < j /\ end[i] \in errs) =>
                  /\ end[j] \in errs
                  /\ Pos(last.popped, end[i]) < Pos(last.popped, end[j])
        /\ \A f \in errs : f \in Range(end) \/ f \in evicted
        /\ Len(last.before) + Len(last.errs) <= cap
              => end = last.before \o last.errs

\* two writes failed and an entry arrived between the last loop test and
\* the extend
C7_Witness ==
    /\ fpc = "idle"
    /\ Len(last.errs) = 2
    /\ Len(last.before) = 1
    /\ Len(last.end) = 3

\* C8 as stated: every entry that was in the queue when the cycle started
\* is attempted exactly once in that cycle.
C8_AllStartAttemptedOnce ==
    \A e \in Range(last.start) : Count(last.popped, e) = 1

\* C8 amended: no entry is attempted twice in one cycle, and every entry
\* that was in the queue when the cycle started is attempted exactly once
\* whichever other writes fail, unless the capacity evicted it from the queue
\* before the flush reached it.
C8_AttemptedOnceUnlessEvicted ==
    /\ \A e \in Range(last.popped) : Count(last.popped, e) = 1
    /\ \A e \in Range(last.start) :
          Count(last.popped, e) = 1 \/ e \in evicted

\* the first write of the cycle failed and the flush went on to the others
C8_Witness ==
    /\ fpc = "idle"
    /\ Len(last.start) = 3
    /\ last.popped = last.start
    /\ last.errs = <<last.start[1]>>
    /\ Delivered(last.start[2])

\* the sequence a step's deque operation works on
Src == IF fpc = "extend" THEN write_queue \o requeue ELSE write_queue

\* C10 as stated: no entry is evicted while an entry that was originally
\* enqueued earlier than it stays in the queue.
C10_OldestArrivalEvicted ==
    [][\A e \in evicted' \ evicted :
          \A x \in Range(write_queue') : x.ts > e.ts]_vars

\* C10 amended: an entry is evicted only when an entry is added to a full
\* queue, and the entry evicted is the one at the front: no entry is evicted
\* while an entry that stood before it in the queue stays in the queue.
C10_FrontEvicted ==
    [][/\ evicted' # evicted => Len(write_queue') = cap
       /\ \A j \in 1..Len(Src) :
             Src[j] \in evicted' \ evicted =>
                 \A i \in 1..(j - 1) : Src[i] \notin Range(write_queue')]_vars

\* an entry was evicted by the requeue of an older failed write, which is
\* in the queue
C10_Witness ==
    /\ fpc = "idle"
    /\ last.errs # <<>>
    /\ \E e \in evicted \cap Range(last.before) :
          \E x \in Range(write_queue) \cap Range(last.errs) : x.ts < e.ts

\* C5 as stated: a change whose origin tag is the core's own identity never
\* adds an entry to the write queue, a change with any other tag adds one.
C5_CoreOriginIgnored ==
    [][\A item \in Items : \A v \in ItemValues(item) :
          /\ update_item(item, clsname, v) => arrivals' = arrivals
          /\ \A caller \in Callers \ {clsname} :
                update_item(item, caller, v)
                    => Len(arrivals') = Len(arrivals) + 1]_vars

\* the writes with an accepted value that LiveSpec can enqueue
LiveEntries ==
    {[name |-> i, value |-> v, ts |-> n] :
        i \in Items, v \in UNION {ItemValues(j) : j \in Items},
        n \in 1..LiveMaxTs}

\* C9: if flush cycles keep being invoked and the database eventually stays
\* healthy, every enqueued write with a numeric or boolean value is
\* eventually delivered and out of the queue, or evicted by capacity.
C9_EventuallyDelivered ==
    (<>[]db_up) =>
        \A e \in LiveEntries :
            (e \in Range(arrivals) /\ NumericOrBoolean(e.value))
                ~> ((Delivered(e) /\ e \notin Range(write_queue))
                        \/ e \in evicted)

\* the last cycle delivered a write that had failed in an earlier cycle
C9_Witness ==
    \E e \in failed :
        /\ Delivered(e)
        /\ e \notin Range(write_queue)
        /\ e \in Range(last.start)
        /\ last.errs = <<>>
        /\ fpc = "idle"

\* C6 as stated: when the database query call of a series query fails, the
\* query returns a series reply with an empty series and raises nothing.
C6_QueryFailureEmptyReply ==
    ( /\ q_out # QNone
      /\ q_db.kind = "raise"
      /\ _parse_timestr(q_in.start, None).kind = "return"
      /\ _parse_timestr(q_in.start, None).value # None
      /\ _parse_timestr(q_in.end, None).kind = "return"
      /\ _parse_timestr(q_in.end, None).value # None
      /\ q_in.func \in {"avg", "min", "max", "on"} )
    => (q_out.kind = "reply" /\ q_out.series = <<>>)

\* C11: a 403 on the startup probe lets the plugin go on with both periodic
\* tasks scheduled; after any other probe error no task is scheduled and
\* the plugin never becomes alive, also when run() is called.
C11_FatalProbeNeverAlive ==
    spc = "constructed" =>
        IF probe \in {"ok", "403"}
        THEN scheduled = Tasks
        ELSE scheduled = {} /\ alive # "True"

\* C12: a relative time whose magnitude is not all digits makes the parser
\* return None, and a series query whose start or end is such a text is
\* answered as a query without data: nothing is raised to the caller.
C12_UnparsedTimeIsNoData ==
    ( /\ q_out # QNone
      /\ q_in.func \in {"avg", "min", "max", "on"}
      /\ (q_in.start = TextBad \/ q_in.end = TextBad) )
    => ( /\ _parse_timestr(TextBad, None) = Return(None)
         /\ q_out.kind = "reply"
         /\ q_out.series = <<>> )

\* the field of a row a supported function reads, as the claims state it
ClaimedField(func, row) ==
    CASE func = "avg" -> row.value_avg
      [] func = "min" -> row.value_min
      [] func = "max" -> row.value_max
      [] func = "on" -> row.value_max

\* C13: a series query whose function is none of avg, min, max, on ends in
\* NotImplementedError and returns no reply; a reply for avg, min or max
\* carries the values of the function's own field, one for on those of the
\* max field.
C13_UnknownFunctionUnsupported ==
    q_out # QNone =>
        IF q_in.func \notin {"avg", "min", "max", "on"}
        THEN q_out = Raise("NotImplementedError")
        ELSE q_out.kind = "reply" =>
                 {q_out.series[k][2] : k \in 1..Len(q_out.series)}
                     = {ClaimedField(q_in.func, q_db.rows[k]) :
                            k \in 1..Len(q_db.rows)}

\* C13, for queries whose start and end parse
C13_WhenTimesParse ==
    ( /\ q_out # QNone
      /\ q_in.start # TextBad
      /\ q_in.end # TextBad )
    => C13_UnknownFunctionUnsupported

\* the instants a query asks for
WindowStart(in) == The(_parse_timestr(in.start, None).value)
WindowEnd(in) == The(_parse_timestr(in.end, None).value)

\* C14: the update directive of every series reply has the query's end as
\* next start, end + step as next end, and the step, function and sid of
\* the query; a client polling with the directive of the previous reply
\* asks for windows that are contiguous, one step wide, under the same sid.
C14_DirectiveContinuesWindow ==
    /\ (q_out # QNone /\ q_out.kind = "reply") =>
           /\ q_out.params.start = WindowEnd(q_in)
           /\ q_out.params.end = WindowEnd(q_in) + q_out.params.step
           /\ q_out.params.step > 0
           /\ q_in.step # None => q_out.params.step = The(q_in.step)
           /\ q_out.params.func = q_in.func
           /\ q_out.params.sid = q_out.sid
           /\ q_in.sid # None => q_out.sid = The(q_in.sid)
    /\ q_prev # QNone =>
           /\ WindowStart(q_in) = WindowEnd(q_prev.in)
           /\ WindowEnd(q_in) = WindowStart(q_in) + q_prev.out.params.step
           /\ q_in.func = q_prev.in.func
           /\ The(q_in.sid) = q_prev.out.sid
           /\ The(q_in.step) = q_prev.out.params.step

\* a second poll with a directive was answered
C14_Witness ==
    /\ q_polls = 2
    /\ q_out # QNone
    /\ q_out.kind = "reply"
    /\ q_prev.in.start[1] = "int"
    /\ q_out.params.start = q_prev.out.params.end

\* the granularity of the smallest threshold that is at least the span, the
\* largest granularity when the span exceeds every threshold
ClaimedResolution(span) ==
    LET rows == 1..Len(RESOLUTIONS)
        fit == {i \in rows : RESOLUTIONS[i][1] >= span}
        smallest == CHOOSE i \in fit :
                        \A j \in fit : RESOLUTIONS[i][1] <= RESOLUTIONS[j][1]
        largest == CHOOSE i \in rows :
                       \A j \in rows : RESOLUTIONS[j][2] <= RESOLUTIONS[i][2]
    IN  IF fit = {} THEN RESOLUTIONS[largest][2]
        ELSE RESOLUTIONS[smallest][2]

\* C15: _get_resolution returns the granularity of the smallest threshold
\* that is at least the span, the largest granularity beyond every
\* threshold; a larger span never gets a finer granularity; spans of 3600,
\* 6*86400 and 20*86400 seconds get 300, 3600 and 43200.
C15_ResolutionBySpan ==
    (f_out # QNone /\ f_in.fn = "_get_resolution") =>
        /\ f_out.value = ClaimedResolution(f_in.secs)
        /\ f_out.value2 = ClaimedResolution(f_in.secs2)
        /\ f_in.secs <= f_in.secs2 => f_out.value <= f_out.value2
        /\ f_in.secs = 3600 => f_out.value = 300
        /\ f_in.secs = 6 * 86400 => f_out.value = 3600
        /\ f_in.secs = 20 * 86400 => f_out.value = 43200

\* the selector answered for a span on a threshold and for one past the
\* last threshold
C15_Witness ==
    /\ f_out # QNone
    /\ f_in.fn = "_get_resolution"
    /\ f_in.secs = DAY
    /\ f_in.secs2 = 4 * WEEK + 1
    /\ f_out.value = 300
    /\ f_out.value2 = 43200

\* a time text of the form <n><u>, -<n><u> or +<n><u>: its sign, its
\* magnitude n and its unit suffix u
Signed(t) == t # <<>> /\ t[1] \in {"+", "-"}
Unsigned(t) == IF Signed(t) THEN Tail(t) ELSE t
Magnitude(t) == SubSeq(Unsigned(t), 1, Len(Unsigned(t)) - 1)
UnitSuffix(t) == t[Len(t)]
RelativeForm(t) ==
    /\ Len(Unsigned(t)) >= 2
    /\ isdigit(Magnitude(t))
    /\ UnitSuffix(t) \notin Range(Digits) \cup {"+", "-", " "}
\* the length of n units in seconds, an unrecognized unit counting as hours
ClaimedSeconds(u) ==
    CASE u = "m" -> 60
      [] u = "h" -> 3600
      [] u = "d" -> 86400
      [] OTHER -> 3600
ClaimedInstant(t, T) ==
    IF t[1] = "+"
    THEN T + int(Magnitude(t)) * ClaimedSeconds(UnitSuffix(t))
    ELSE T - int(Magnitude(t)) * ClaimedSeconds(UnitSuffix(t))

\* C16 for the texts with a unit m, h or d and for the all-digit texts
C16_RecognizedUnits ==
    ( /\ f_out # QNone
      /\ f_in.fn = "_parse_timestr"
      /\ f_in.timestr[1] = "str" )
    => LET t == f_in.timestr[2] IN
       /\ ( /\ f_in.reldt # None
            /\ RelativeForm(t)
            /\ UnitSuffix(t) \in {"m", "h", "d"} )
          => f_out = Return(Some(ClaimedInstant(t, The(f_in.reldt))))
       /\ isdigit(t) => f_out = Return(Some(int(t)))

\* C16: with a reference instant T, "<n><u>" and "-<n><u>" parse to T minus
\* n units and "+<n><u>" to T plus n units for u in m, h, d; an
\* unrecognized unit suffix counts as hours; an all-digit text parses to
\* that absolute instant whatever the reference.
C16_RelativeTimes ==
    ( /\ f_out # QNone
      /\ f_in.fn = "_parse_timestr"
      /\ f_in.timestr[1] = "str" )
    => LET t == f_in.timestr[2] IN
       /\ ( /\ f_in.reldt # None
            /\ RelativeForm(t)
            /\ UnitSuffix(t) \notin {"y", "H"} )
          => f_out = Return(Some(ClaimedInstant(t, The(f_in.reldt))))
       /\ isdigit(t) => f_out = Return(Some(int(t)))

C19_WithinCapacity == Len(write_queue) <= cap

\* the queue is full after the requeue of a failed write evicted an entry
C19_Witness ==
    /\ fpc = "idle"
    /\ Len(write_queue) = cap
    /\ last.errs # <<>>
    /\ Len(last.before) + Len(last.errs) > cap
    /\ evicted # {}

\* C20: with finitely many enqueues a running flush cycle comes to its end,
\* also when every write fails; a flush that finds the queue empty at its
\* length check ends there: the flush stays idle, no write reaches the
\* database or fails, and the queue changes only by an enqueue.
C20_FlushTerminates ==
    /\ (fpc # "idle") ~> (fpc = "idle")
    /\ [][(fpc = "idle" /\ write_queue = <<>>) =>
             /\ fpc' = "idle"
             /\ points' = points
             /\ failed' = failed
             /\ write_queue' = <<>> \/ arrivals' # arrivals]_vars

\* a cycle has ended in which every write was attempted with the database
\* down and failed
C20_Witness ==
    /\ fpc = "idle"
    /\ ~db_up
    /\ points = {}
    /\ last.popped # <<>>
    /\ last.errs = last.popped
    /\ write_queue = last.errs

====
